---- MODULE Spec2Model ----
(***************************************************************************)
(* The device-flow token broker of src/worker.js (the GitHub App broker    *)
(* for ai-aligned-gh, lines 1483-1897): handleUserTokenStart,              *)
(* handleUserTokenPoll and exchangeForInstallationToken, the DEVICE_CODES  *)
(* KV namespace they share, and the upstream provider (github.com) they    *)
(* call.                                                                   *)
(*                                                                         *)
(* Requests run concurrently.  A handler is cut at its awaits: one action  *)
(* runs from the resumption of an awaited call (whose effect on the store  *)
(* or whose upstream answer takes place at that moment) through the        *)
(* synchronous code that follows, up to the next awaited call or to the    *)
(* returned Response.  A returned Response leaves the handler: it is kept  *)
(* in the set of finished requests, with what its handler did.             *)
(*                                                                         *)
(* The upstream provider is not constrained by the worker: it may answer   *)
(* any exchange request with any of its answers.  It is trusted for one    *)
(* thing only, as the worker trusts it: device codes it issues are unique. *)
(***************************************************************************)
EXTENDS Integers, Sequences, FiniteSets, TLC

\* ---- bounds of the model ------------------------------------------------
MaxReq == 3        \* requests received over a run
MaxCodes == 2      \* device codes the upstream provider issues over a run

\* ---- program constants --------------------------------------------------
SlowDownOffset == 5

Codes == 1..MaxCodes
NoCode == 0                      \* body.device_code missing or empty
UnknownCode == MaxCodes + 1      \* a device code upstream never issues
\* interval and expires_in of the upstream answers to a device-authorization
\* request.
Grants == { [interval |-> 5, expires_in |-> 900],
            [interval |-> 10, expires_in |-> 600] }
Absent == -1                     \* a numeric field that is not in a body
NoToken == <<>>
NoUri == ""                      \* body.redirect_uri missing
\* What callers pass as redirect_uri to start.
RedirectUris == {NoUri, "https://app.example/callback"}
NoScope == ""                    \* body.scopes missing
\* What callers pass as scopes to start.
ScopeValues == {NoScope, "repo user"}
\* The bodies callers send to start: redirect_uri and scopes, each passed or
\* not.
PlainBody == [redirect_uri |-> NoUri, scopes |-> NoScope]
StartBodies ==
    {b \in [redirect_uri : RedirectUris, scopes : ScopeValues] :
        b.redirect_uri = NoUri \/ b.scopes = NoScope}
\* The form parameters of a device-authorization request.
NoParams == [client_id |-> FALSE, scope |-> NoScope]
NoUserCode == <<>>
UserCode(d) == <<"user_code", d>>      \* the user code upstream issues with d
VerificationUri == "https://github.com/login/device"
\* Times are counted in milliseconds from the handler's Date.now().
Now == 0
DefaultLifetime == 28800

OAuthToken(d) == <<"ghu", d>>          \* user-to-server token issued for d
InstallationToken(d) == <<"ghs", d>>   \* installation token minted after d

\* Request bodies no handler can read: text that is not JSON, which the
\* router's JSON.parse rejects, and the JSON value null, which the handler
\* cannot destructure.  Any other body is read as an object (an empty body
\* as {}).
BadBodies == {"invalid", "null"}

\* Upstream answers to the token-exchange request of a poll.
PollAnswers ==
    {"authorization_pending", "slow_down", "access_denied", "expired_token",
     "success"}

\* Bodies of a non-ok upstream answer to the device-authorization request.
StartErrors ==
    { [error |-> "unauthorized_client", error_description |-> "client not allowed"],
      [error |-> "unauthorized_client", error_description |-> ""],
      [error |-> "", error_description |-> ""] }

\* token_type, scope and expires_in of the upstream body that carries an
\* access token; "" and Absent stand for a field the body does not have.
GrantedToken ==
    [token_type |-> "bearer", scope |-> "repo user", expires_in |-> 28800]
TokenBodies ==
    { GrantedToken,
      [token_type |-> "bearer", scope |-> "repo user", expires_in |-> 3600],
      [token_type |-> "", scope |-> "", expires_in |-> Absent],
      [token_type |-> "bearer", scope |-> "repo", expires_in |-> 0] }
NoTokenBody == [token_type |-> "", scope |-> "", expires_in |-> Absent]

\* The error_description upstream sends with error e.
UpstreamDescription(e) ==
    CASE e = "access_denied" -> "The user has denied your application access"
      [] e = "expired_token" -> "The device_code has expired"
      [] OTHER -> ""

VARIABLES
    env,        \* the worker's bindings: which of them are configured
    store,      \* DEVICE_CODES: device_code -> stored session (present keys only)
    issued,     \* upstream: number of device codes issued so far
    grants,     \* upstream: device_code -> the data it was issued with
    expired,    \* device codes whose session the store's TTL has removed
    deleted,    \* device_code -> number of store deletes performed on that key
    nextReq,    \* number of requests received so far
    reqs,       \* request in flight -> its handler's position and locals
    finished,   \* the requests answered so far, each with its Response
    webEnv,     \* the web-flow worker's bindings: which of them are configured
    authStates, \* AUTH_STATES: state -> stored value (present keys only)
    webIssued,  \* number of states crypto.randomUUID() has produced so far
    webExpired, \* states whose key the store's TTL has removed
    webNextReq, \* number of web-flow requests received so far
    webReqs,    \* web-flow request in flight -> its handler's position and locals
    webFinished, \* the web-flow requests answered so far, each with its Response
    brokerEnv,  \* the token broker's bindings
    github,     \* upstream: the caller's permission and the app's permissions
    rateLimit,  \* RATE_LIMIT: the count stored for the caller's IP this hour
    call        \* the token broker's request in progress, or its last one

deviceVars ==
    <<env, store, issued, grants, expired, deleted, nextReq, reqs, finished>>

webVars ==
    <<webEnv, authStates, webIssued, webExpired, webNextReq, webReqs,
      webFinished>>

\* What the device-flow worker never touches.
brokerVars == <<brokerEnv, github, rateLimit, call>>

others == <<webVars, brokerVars>>

vars == <<deviceVars, webVars, brokerVars>>

\* ---- Responses ----------------------------------------------------------
NoResponse ==
    [status |-> 0, error |-> "", error_description |-> "", interval |-> Absent,
     access_token |-> NoToken, app_attribution |-> FALSE,
     device_code |-> NoCode, expires_in |-> Absent,
     user_code |-> NoUserCode, verification_uri |-> "",
     created_at |-> Absent, redirect_uri |-> NoUri,
     token_type |-> "", scope |-> "", expires_at |-> Absent]

ErrorResponse(status, error, description) ==
    [NoResponse EXCEPT !.status = status, !.error = error,
                       !.error_description = description]

ClientIdNotConfigured == ErrorResponse(500, "GitHub Client ID not configured", "")

StartOkStamped(data) ==
    [NoResponse EXCEPT !.status = 200, !.device_code = data.device_code,
                       !.user_code = data.user_code,
                       !.verification_uri = data.verification_uri,
                       !.expires_in = data.expires_in, !.interval = data.interval,
                       !.created_at = Now]

StartOk(data) ==
    [NoResponse EXCEPT !.status = 200, !.device_code = data.device_code,
                       !.user_code = data.user_code,
                       !.verification_uri = data.verification_uri,
                       !.expires_in = data.expires_in, !.interval = data.interval]

ErrorCodeFirst(data) ==
    IF data.error # "" THEN data.error
    ELSE IF data.error_description # "" THEN data.error_description
    ELSE "Failed to start device flow"

\* data.error_description || data.error || 'Failed to start device flow'
StartErrorMessage(data) ==
    IF data.error_description # "" THEN data.error_description
    ELSE IF data.error # "" THEN data.error
    ELSE "Failed to start device flow"

StartFailed(message) == ErrorResponse(500, message, "")

DeviceCodeRequired == ErrorResponse(400, "device_code is required", "")

NotConfigured ==
    ErrorResponse(503, "server_error", "Device flow not configured on this server")

NotFoundResponse == ErrorResponse(404, "not_found", "Unknown device code")

ExpiredAsPending ==
    ErrorResponse(202, "authorization_pending",
                  "User has not yet authorized the request")

ExpiredResponse == ErrorResponse(400, "expired_token", "Device code has expired")

PendingWidened(deviceData) ==
    [ErrorResponse(202, "authorization_pending",
                   "User has not yet authorized the request")
       EXCEPT !.interval = deviceData.interval + SlowDownOffset]

PendingResponse(deviceData) ==
    [ErrorResponse(202, "authorization_pending",
                   "User has not yet authorized the request")
       EXCEPT !.interval = deviceData.interval]

SlowDownEcho(deviceData) ==
    [ErrorResponse(429, "slow_down", "Polling too frequently")
       EXCEPT !.interval = deviceData.interval]

SlowDownResponse(deviceData) ==
    [ErrorResponse(429, "slow_down", "Polling too frequently")
       EXCEPT !.interval = deviceData.interval + SlowDownOffset]

UpstreamErrorUndescribed(e) == ErrorResponse(400, e, "")

UpstreamErrorResponse(e) == ErrorResponse(400, e, UpstreamDescription(e))

ServerError(message) == ErrorResponse(500, "server_error", message)

InternalServerError == ErrorResponse(500, "Internal server error", "")

InvalidBody == ErrorResponse(400, "Invalid request body", "")

\* data.expires_in || 28800, in seconds
Lifetime(expires_in) ==
    IF expires_in = Absent \/ expires_in = 0 THEN DefaultLifetime ELSE expires_in

\* data.token_type || 'bearer'
TokenType(token_type) == IF token_type = "" THEN "bearer" ELSE token_type

\* data is the upstream body without its access_token, which is oauthToken.
TokenResponse(finalToken, oauthToken, data) ==
    [NoResponse EXCEPT !.status = 200, !.access_token = finalToken,
                       !.token_type = TokenType(data.token_type),
                       !.expires_at = Now + Lifetime(data.expires_in) * 1000,
                       !.scope = data.scope,
                       !.app_attribution = (finalToken # oauthToken)]

\* ---- the KV namespace ---------------------------------------------------
NoData == [device_code |-> NoCode, user_code |-> NoUserCode,
           verification_uri |-> "", interval |-> Absent, expires_in |-> Absent,
           created_at |-> Absent, redirect_uri |-> NoUri, ttl |-> Absent]

SessionWidened(data, redirect_uri) ==
    [data EXCEPT !.created_at = Now, !.redirect_uri = redirect_uri,
                 !.interval = @ + SlowDownOffset]

\* {...data, created_at: Date.now(), redirect_uri}
Session(data, redirect_uri) ==
    [data EXCEPT !.created_at = Now, !.redirect_uri = redirect_uri]

KvPut(kv, key, value, ttl) ==
    [k \in DOMAIN kv \cup {key} |->
        IF k = key THEN [value EXCEPT !.ttl = ttl] ELSE kv[k]]

KvGet(kv, key) == IF key \in DOMAIN kv THEN kv[key] ELSE NoData

KvDelete(kv, key) == [k \in DOMAIN kv \ {key} |-> kv[k]]

\* ---- requests -----------------------------------------------------------
\* kind, pc, body, device_code (of a poll's body), redirect_uri and scopes
\* (of a start's body), sent (the parameters of the device-authorization
\* request a start sends), data (the upstream data of a start, the deviceData of a
\* poll), answer/token/oauth/finalToken (locals of a poll: what upstream
\* answered, the body that came with its access token, that token, the
\* token to return), failure (the body of a non-ok upstream answer to a
\* start) and response are the handler's; upstreamCalls, gets, puts and
\* deletes count what the handler did; thrown is the message of the exception
\* an awaited store or upstream call raised; late, afterFailed, afterExpired,
\* afterSlowDown and seen are kept for the properties.
NoFailure == [error |-> "", error_description |-> ""]

Idle ==
    [kind |-> "idle", pc |-> "idle", body |-> "", device_code |-> NoCode,
     redirect_uri |-> NoUri, scopes |-> NoScope, sent |-> NoParams,
     data |-> NoData,
     oauth |-> NoToken, finalToken |-> NoToken, answer |-> "",
     token |-> NoTokenBody, failure |-> NoFailure,
     response |-> NoResponse,
     upstreamCalls |-> 0, gets |-> 0, puts |-> <<>>, deletes |-> <<>>,
     thrown |-> "",
     late |-> FALSE, afterFailed |-> FALSE, afterExpired |-> FALSE,
     afterSlowDown |-> FALSE, seen |-> "none"]

\* The handler's catch or the router's answers the exception of a call.
Threw(q, message, response) ==
    [q EXCEPT !.pc = "done", !.thrown = message, !.response = response]

NeverReturns(q, response) == [q EXCEPT !.response = response]

Respond(q, response) == [q EXCEPT !.pc = "done", !.response = response]

\* Request r goes on as q, or leaves with its Response.
Step(r, q) ==
    IF q.pc = "done"
    THEN /\ reqs' = [reqs EXCEPT ![r] = Idle]
         /\ finished' = finished \cup {q}
    ELSE /\ reqs' = [reqs EXCEPT ![r] = q]
         /\ finished' = finished

Requests == 1..MaxReq

FreeSlot == CHOOSE r \in Requests :
                /\ reqs[r].kind = "idle"
                /\ \A s \in 1..(r - 1) : reqs[s].kind # "idle"

\* The answered requests whose handler was called.
Polls == {q \in finished : q.kind = "poll" /\ q.body # "invalid"}
Starts == {q \in finished : q.kind = "start" /\ q.body # "invalid"}

\* The device codes for which some poll has returned a token.
Resolved == {q.device_code : q \in {p \in Polls : p.response.status = 200}}

\* The device codes for which some poll has returned a terminal upstream
\* error.
Failed ==
    {q.device_code :
        q \in {p \in Polls : p.answer \in {"access_denied", "expired_token"}}}

\* The device codes for which some poll has been answered slow_down.
SlowedCodes ==
    {q.device_code : q \in {p \in Polls : p.answer = "slow_down"}}

\* The device codes some start has returned with a 200.
Created ==
    {q.response.device_code : q \in {p \in Starts : p.response.status = 200}}

\* ---- Token broker: the world it runs in ------------------------------------
\* Two repositories the app is installed on, each with its own installation.
RepoA == [owner |-> "org", repo |-> "a"]
RepoB == [owner |-> "org", repo |-> "b"]
NoRepo == [owner |-> "", repo |-> ""]
Repos == {RepoA, RepoB}

NoInstallation == 0
InstallationOf(repository) == IF repository = RepoA THEN 1 ELSE 2
Installations == {InstallationOf(repository) : repository \in Repos}

\* RepoB is private and the caller cannot see it; RepoA is public.
Private(repository) == repository = RepoB
Visible(repository) == repository = RepoA

\* The permission levels of validatePermissions.
Levels == {"admin", "write", "read", "none"}
Unlisted == "unlisted"

PermissionLevel(level) ==
    CASE level = "admin" -> 3
      [] level = "write" -> 2
      [] level = "read" -> 1
      [] OTHER -> 0

\* The permissions an installation of the app can hold: resource -> level.
NoPermissions == <<>>
ContentsOnly == [r \in {"contents"} |-> "read"]
WritesCode ==
    [r \in {"contents", "pull_requests", "issues"} |->
        IF r = "issues" THEN "read" ELSE "write"]
Administers ==
    [r \in {"contents", "administration"} |->
        IF r = "contents" THEN "read" ELSE "write"]
AppPermissions == {ContentsOnly, WritesCode, Administers}

RateLimit == 100

\* ---- Token broker: requests ------------------------------------------------
NoHeader == ""
NoOrigin == ""
ExampleOrigin == "https://example.com"
OtherOrigin == "https://other.example"
Origins == {NoOrigin, ExampleOrigin, OtherOrigin, "null"}

\* The values of ALLOWED_ORIGINS, each as the pieces between its commas:
\* unset, one origin, two origins written with a space after the comma, and
\* an asterisk.
OriginLists ==
    {<<>>, <<ExampleOrigin>>, <<ExampleOrigin, " https://other.example">>,
     <<"*">>}

NoSecret == ""
Secret == "test-secret-key"
OtherSecret == "guess"

\* The raw bodies callers send, and what JSON.parse makes of them.
InvalidJson == "{"
TokenForA == "{\"owner\":\"org\",\"repo\":\"a\"}"
TokenForB == "{\"owner\":\"org\",\"repo\":\"b\"}"
TokenForTwo == "{\"installation_id\":2}"
TokenForTwoAsA == "{\"installation_id\":2,\"owner\":\"org\",\"repo\":\"a\"}"
RawBodies == {"", "{}", InvalidJson, TokenForA, TokenForB, TokenForTwo, TokenForTwoAsA}

EmptyBody == [installation_id |-> NoInstallation, repository |-> NoRepo]
Unparsed == [installation_id |-> -1, repository |-> NoRepo]

JsonParse(rawBody) ==
    CASE rawBody = TokenForA -> [EmptyBody EXCEPT !.repository = RepoA]
      [] rawBody = TokenForB -> [EmptyBody EXCEPT !.repository = RepoB]
      [] rawBody = TokenForTwo -> [EmptyBody EXCEPT !.installation_id = 2]
      [] rawBody = TokenForTwoAsA ->
             [EmptyBody EXCEPT !.installation_id = 2, !.repository = RepoA]
      [] rawBody = InvalidJson -> Unparsed
      [] OTHER -> EmptyBody

\* The message verifyHMAC signs, and the base64 of its HMAC-SHA256.
Message(method, path, rawBody) == method \o path \o rawBody
Hmac(secret, message) == <<"HMAC-SHA256", secret, message>>

\* The Authorization header: none, a GitHub token upstream accepts, one it
\* rejects.
NoAuthorization == ""
GoodBearer == "Bearer ghu_alice"
BadBearer == "Bearer ghu_revoked"

NoClientAuth == <<>>

\* What a caller can put in X-Client-Auth for a request: nothing, a string that
\* is no signature, the signature of this request under the broker's secret or
\* under another one, and the signature under the broker's secret of a request
\* with another path or another body.
ClientAuths(method, path, rawBody) ==
    {NoClientAuth, <<"invalid-auth">>,
     Hmac(Secret, Message(method, path, rawBody)),
     Hmac(OtherSecret, Message(method, path, rawBody)),
     Hmac(Secret, Message(method, "/user-token/poll", rawBody)),
     Hmac(Secret, Message(method, path, TokenForA \o " "))}

Credentials(method, path, rawBody) ==
    {c \in [authorization : {NoAuthorization, GoodBearer, BadBearer},
            clientAuth : ClientAuths(method, path, rawBody)] :
        c.authorization # NoAuthorization =>
            c.clientAuth \in {NoClientAuth,
                              Hmac(Secret, Message(method, path, rawBody))}}

NoBrokerBindings ==
    [BROKER_CLIENT_SECRET |-> NoSecret, APP_CONFIGURED |-> FALSE,
     ALLOWED_ORIGINS |-> <<>>]

BrokerNoResponse ==
    [status |-> 0, error |-> "", allowOrigin |-> NoHeader,
     token |-> NoInstallation]

NoCall ==
    [pc |-> "idle", method |-> "", path |-> "", origin |-> NoOrigin,
     rawBody |-> "", authorization |-> NoAuthorization,
     clientAuth |-> NoClientAuth, body |-> EmptyBody,
     user |-> "", permissions |-> "", verified |-> NoRepo,
     installationId |-> NoInstallation, appPermissions |-> NoPermissions,
     handler |-> "", response |-> BrokerNoResponse]

\* No request has reached the token broker.
BrokerQuiet ==
    /\ brokerEnv = NoBrokerBindings
    /\ github = [permission |-> "none", appPermissions |-> ContentsOnly]
    /\ rateLimit = 0
    /\ call = NoCall

\* ---- Web flow: values ----------------------------------------------------
\* A state is the UUID /auth/start generated: the n-th one is n.
\* The web-flow requests of a run: a start, a callback and two polls.
MaxWebReq == 4

\* The states /auth/start issues over a run.
MaxStates == 1

States == 1..MaxStates
NoState == 0
UnknownState == MaxStates + 1

\* The authorization code of a callback's query string.
NoAuthCode == ""
GoodCode == "code"
AuthCodes == {GoodCode}

PendingTtl == 600
CompletedTtl == 300

\* The user-to-server token upstream issues for an authorization code.
UserToken(code) == <<"ghu", code>>

\* What upstream answers a code exchange with.
Granted(code) ==
    [error |-> "", error_description |-> "",
     access_token |-> UserToken(code), token_type |-> "bearer", scope |-> ""]

Refused ==
    [error |-> "bad_verification_code",
     error_description |-> "The code passed is incorrect or expired.",
     access_token |-> NoToken, token_type |-> "", scope |-> ""]

NoTokenData ==
    [error |-> "", error_description |-> "",
     access_token |-> NoToken, token_type |-> "", scope |-> ""]

TokenData(code) == {Granted(code), Refused}

\* The values the handlers store under a state.
NoStateData ==
    [status |-> "", created_at |-> Absent, access_token |-> NoToken,
     token_type |-> "", scope |-> "", ttl |-> Absent]

StartsCompleted ==
    [NoStateData EXCEPT !.status = "completed", !.created_at = Now,
                        !.access_token = UserToken(GoodCode)]

PendingState ==
    [NoStateData EXCEPT !.status = "pending", !.created_at = Now]

CompletedState(tokenData) ==
    [NoStateData EXCEPT !.status = "completed", !.created_at = Now,
                        !.access_token = tokenData.access_token,
                        !.token_type = tokenData.token_type,
                        !.scope = tokenData.scope]

\* ---- Web flow: responses -------------------------------------------------
WebNoResponse ==
    [status |-> 0, text |-> <<>>, error |-> "", error_description |-> "",
     message |-> "", state |-> NoState, expires_in |-> Absent,
     access_token |-> NoToken, token_type |-> "", scope |-> ""]

\* A response whose body is text, given as the pieces of its template.
WebText(status, text) ==
    [WebNoResponse EXCEPT !.status = status, !.text = text]

WebError(status, error, description) ==
    [WebNoResponse EXCEPT !.status = status, !.error = error,
                          !.error_description = description]

WebClientIdNotConfigured == WebError(500, "GitHub Client ID not configured", "")

AuthStarted(state) ==
    [WebNoResponse EXCEPT !.status = 200, !.state = state,
                          !.expires_in = PendingTtl]

MissingCodeOrState == WebText(400, <<"Missing code or state">>)

InvalidOrExpiredState == WebText(400, <<"Invalid or expired state">>)

ClientSecretNotConfigured == WebText(500, <<"Client secret not configured">>)

ExchangeRefused(tokenData) ==
    WebText(400, <<"Error: ", tokenData.error_description>>)

AuthorizationSuccessful == WebText(200, <<"Authorization Successful">>)

StateRequired == WebError(400, "state is required", "")

StorageNotConfigured ==
    WebError(503, "server_error", "Auth state storage not configured")

StateExpired ==
    WebError(400, "expired_token", "State has expired or does not exist")

AuthorizationPending ==
    WebError(202, "authorization_pending",
             "User has not yet completed authorization")

TokenDelivered(stateData) ==
    [WebNoResponse EXCEPT !.status = 200,
                          !.access_token = stateData.access_token,
                          !.token_type = TokenType(stateData.token_type),
                          !.scope = stateData.scope]

InvalidStateStatus == WebError(500, "server_error", "Invalid state status")

InternalError(message) ==
    [WebNoResponse EXCEPT !.status = 500, !.error = "internal_error",
                          !.message = message]

\* ---- Web flow: requests --------------------------------------------------
WebIdle ==
    [kind |-> "idle", pc |-> "idle", code |-> NoAuthCode, state |-> NoState,
     stateData |-> NoStateData, tokenData |-> NoTokenData,
     response |-> WebNoResponse,
     upstreamCalls |-> 0, gets |-> 0, puts |-> <<>>, deletes |-> <<>>,
     thrown |-> "", late |-> FALSE, repeat |-> FALSE]

WebRequests == 1..MaxReq

WebRespond(q, response) == [q EXCEPT !.pc = "done", !.response = response]

WebThrew(q, message) ==
    [q EXCEPT !.pc = "done", !.thrown = message,
              !.response = InternalError(message)]

WebStep(r, q) ==
    IF q.pc = "done"
    THEN /\ webReqs' = [webReqs EXCEPT ![r] = WebIdle]
         /\ webFinished' = webFinished \cup {q}
    ELSE /\ webReqs' = [webReqs EXCEPT ![r] = q]
         /\ webFinished' = webFinished

\* The worker runs at most MaxReq web-flow requests at a time.
WebSlotFree == \E r \in WebRequests : webReqs[r].kind = "idle"

WebFreeSlot == CHOOSE r \in WebRequests :
                   /\ webReqs[r].kind = "idle"
                   /\ \A s \in 1..(r - 1) : webReqs[s].kind # "idle"

\* No web-flow request has arrived.
WebQuiet ==
    /\ authStates = <<>>
    /\ webIssued = 0
    /\ webExpired = {}
    /\ webNextReq = 0
    /\ webReqs = [r \in WebRequests |-> WebIdle]
    /\ webFinished = {}

\* No device-flow request has arrived.
DeviceQuiet ==
    /\ store = <<>>
    /\ issued = 0
    /\ grants = <<>>
    /\ expired = {}
    /\ deleted = [d \in Codes |-> 0]
    /\ nextReq = 0
    /\ reqs = [r \in Requests |-> Idle]
    /\ finished = {}

NoWebBindings ==
    [AUTH_STATES |-> FALSE, GITHUB_CLIENT_ID |-> FALSE,
     GITHUB_CLIENT_SECRET |-> FALSE]

NoBindings ==
    [DEVICE_CODES |-> FALSE, GITHUB_CLIENT_ID |-> FALSE,
     APP_CREDENTIALS |-> FALSE]

Init ==
    /\ env \in [DEVICE_CODES : BOOLEAN, GITHUB_CLIENT_ID : BOOLEAN,
                APP_CREDENTIALS : BOOLEAN]
    /\ store = <<>>
    /\ issued = 0
    /\ grants = <<>>
    /\ expired = {}
    /\ deleted = [d \in Codes |-> 0]
    /\ nextReq = 0
    /\ reqs = [r \in Requests |-> Idle]
    /\ finished = {}
    /\ webEnv = NoWebBindings
    /\ WebQuiet
    /\ BrokerQuiet

\* The web-flow worker after deployment.
InitWeb ==
    /\ webEnv \in [AUTH_STATES : BOOLEAN, GITHUB_CLIENT_ID : BOOLEAN,
                   GITHUB_CLIENT_SECRET : BOOLEAN]
    /\ WebQuiet
    /\ env = NoBindings
    /\ DeviceQuiet
    /\ BrokerQuiet

\* The token broker after deployment, in each world it can meet.
InitBroker ==
    /\ brokerEnv \in [BROKER_CLIENT_SECRET : {NoSecret, Secret},
                      APP_CONFIGURED : BOOLEAN,
                      ALLOWED_ORIGINS : OriginLists]
    /\ github \in [permission : Levels \cup {Unlisted},
                   appPermissions : AppPermissions]
    /\ rateLimit \in {0, RateLimit}
    /\ call = NoCall
    /\ env = NoBindings
    /\ DeviceQuiet
    /\ webEnv = NoWebBindings
    /\ WebQuiet

\* ---- handleUserTokenStart -----------------------------------------------
ClientIdNeverMissing == FALSE

\* if (!clientId)
ClientIdMissing == ~env.GITHUB_CLIENT_ID

SendsScopeIfGiven(scopes) == scopes # NoScope

\* if (scopes && false)
SendsScope(scopes) == scopes # NoScope /\ FALSE

\* new URLSearchParams({client_id: clientId}), with scope appended or not
DeviceCodeParams(scopes) ==
    [client_id |-> env.GITHUB_CLIENT_ID,
     scope |-> IF SendsScope(scopes) THEN scopes ELSE NoScope]

\* A start is received, with one of bodies.
StartWith(bodies) ==
    /\ nextReq < MaxReq
    /\ nextReq' = nextReq + 1
    /\ \E body \in bodies :
         LET q == [Idle EXCEPT !.kind = "start", !.body = "object",
                               !.redirect_uri = body.redirect_uri,
                               !.scopes = body.scopes]
         IN Step(FreeSlot,
                 IF ClientIdMissing
                 THEN Respond(q, ClientIdNotConfigured)
                 ELSE [q EXCEPT !.pc = "start_fetch", !.upstreamCalls = 1,
                                !.sent = DeviceCodeParams(body.scopes)])
    /\ UNCHANGED <<others, env, store, issued, grants, expired, deleted>>

\* Callers that pass no redirect_uri and no scopes.
StartBegin == StartWith({PlainBody})

\* The device-authorization request is answered with a device code.
StartFetchOk(r) ==
    /\ reqs[r].pc = "start_fetch"
    /\ issued < MaxCodes
    /\ \E g \in Grants :
         LET data == [NoData EXCEPT !.device_code = issued + 1,
                                    !.user_code = UserCode(issued + 1),
                                    !.verification_uri = VerificationUri,
                                    !.interval = g.interval,
                                    !.expires_in = g.expires_in]
             q == [reqs[r] EXCEPT !.data = data]
         IN /\ issued' = issued + 1
            /\ grants' = grants \o <<data>>
            /\ Step(r, IF env.DEVICE_CODES
                       THEN [q EXCEPT !.pc = "start_put"]
                       ELSE Respond(q, StartOk(data)))
    /\ UNCHANGED <<others, env, store, expired, deleted, nextReq>>

\* The device-authorization request is answered with a non-ok status.
StartFetchNotOk(r) ==
    /\ reqs[r].pc = "start_fetch"
    /\ \E data \in StartErrors :
         Step(r, Respond([reqs[r] EXCEPT !.answer = "not_ok", !.failure = data],
                         StartFailed(StartErrorMessage(data))))
    /\ UNCHANGED <<others, env, store, issued, grants, expired, deleted, nextReq>>

\* fetch or response.json() throws.
StartFetchThrows(r) ==
    /\ reqs[r].pc = "start_fetch"
    /\ Step(r, Threw(reqs[r], "fetch failed", StartFailed("fetch failed")))
    /\ UNCHANGED <<others, env, store, issued, grants, expired, deleted, nextReq>>

\* env.DEVICE_CODES.put(data.device_code, ..., {expirationTtl: data.expires_in})
WrongPutKey(data) == (data.device_code % MaxCodes) + 1

StartPutKey(data) == data.device_code

TtlFromInterval(data) == data.interval

StartPutTtl(data) == data.expires_in

StartPutReturn(r) ==
    /\ reqs[r].pc = "start_put"
    /\ LET data == reqs[r].data
           key == StartPutKey(data)
           ttl == StartPutTtl(data)
       IN /\ store' = KvPut(store, key, Session(data, reqs[r].redirect_uri), ttl)
          /\ Step(r, Respond([reqs[r] EXCEPT !.puts = Append(@, <<key, ttl>>)],
                             StartOk(data)))
    /\ UNCHANGED <<others, env, issued, grants, expired, deleted, nextReq>>

StartPutThrows(r) ==
    /\ reqs[r].pc = "start_put"
    /\ Step(r, Threw(reqs[r], "KV put failed", StartFailed("KV put failed")))
    /\ UNCHANGED <<others, env, store, issued, grants, expired, deleted, nextReq>>

\* ---- handleUserTokenPoll ------------------------------------------------
\* Why a lookup of d finds what it finds (kept for the properties only).
Seen(d) ==
    IF d \in DOMAIN store THEN "found"
    ELSE IF d \in Resolved THEN "resolved"
    ELSE IF d \in expired THEN "expired"
    ELSE "never"

\* The device codes a client polls with: those a start has returned to it,
\* and one that upstream never issued.
PollableCodes == Created \cup {UnknownCode}

StoreNeverMissing == FALSE

\* if (!env.DEVICE_CODES)
StoreMissing == ~env.DEVICE_CODES

PollBegin ==
    /\ nextReq < MaxReq
    /\ nextReq' = nextReq + 1
    /\ \E device_code \in {NoCode} \cup PollableCodes :
         LET q == [Idle EXCEPT !.kind = "poll", !.body = "object",
                               !.device_code = device_code,
                               !.late = (device_code \in Resolved),
                               !.afterFailed = (device_code \in Failed),
                               !.afterExpired = (device_code \in expired),
                               !.afterSlowDown = (device_code \in SlowedCodes)]
         IN Step(FreeSlot,
                 IF device_code = NoCode THEN Respond(q, DeviceCodeRequired)
                 ELSE IF StoreMissing THEN Respond(q, NotConfigured)
                 ELSE [q EXCEPT !.pc = "poll_get"])
    /\ UNCHANGED <<others, env, store, issued, grants, expired, deleted>>

\* const deviceData = await env.DEVICE_CODES.get(device_code, 'json')
PollGetReturn(r) ==
    /\ reqs[r].pc = "poll_get"
    /\ LET d == reqs[r].device_code
           deviceData == KvGet(store, d)
           q == [reqs[r] EXCEPT !.gets = @ + 1, !.data = deviceData,
                                !.seen = Seen(d)]
       IN Step(r, IF deviceData = NoData THEN Respond(q, ExpiredResponse)
                  ELSE [q EXCEPT !.pc = "poll_fetch", !.upstreamCalls = @ + 1])
    /\ UNCHANGED <<others, env, store, issued, grants, expired, deleted, nextReq>>

\* The get throws: it is outside the handler's try, so the router's catch
\* answers.
PollGetThrows(r) ==
    /\ reqs[r].pc = "poll_get"
    /\ Step(r, Threw([reqs[r] EXCEPT !.gets = @ + 1], "KV get failed",
                     InternalServerError))
    /\ UNCHANGED <<others, env, store, issued, grants, expired, deleted, nextReq>>

OnlyTransientErrors(answer) ==
    answer \in {"authorization_pending", "slow_down"}

\* if (data.error), on the answer to the token-exchange request
HasError(answer) == answer # "success"

\* What the poll answers to an upstream body that carries data.error.
PollErrorResponse(e, deviceData) ==
    IF e = "authorization_pending" THEN PendingResponse(deviceData)
    ELSE IF e = "slow_down" THEN SlowDownResponse(deviceData)
    ELSE UpstreamErrorResponse(e)

\* The token-exchange request is answered, an access token coming in one of
\* bodies.
PollFetchWith(r, bodies) ==
    /\ reqs[r].pc = "poll_fetch"
    /\ \E answer \in PollAnswers :
         LET q == [reqs[r] EXCEPT !.answer = answer]
         IN IF HasError(answer)
            THEN Step(r, Respond(q, PollErrorResponse(answer, q.data)))
            ELSE \E token \in bodies :
                    Step(r, [q EXCEPT !.oauth = OAuthToken(q.device_code),
                                      !.token = token,
                                      !.pc = "installations",
                                      !.upstreamCalls = @ + 1])
    /\ UNCHANGED <<others, env, store, issued, grants, expired, deleted, nextReq>>

\* Upstream sends its access tokens in the body GitHub documents.
PollFetchReturn(r) == PollFetchWith(r, {GrantedToken})

PollFetchThrows(r) ==
    /\ reqs[r].pc = "poll_fetch"
    /\ Step(r, Threw(reqs[r], "fetch failed", ServerError("fetch failed")))
    /\ UNCHANGED <<others, env, store, issued, grants, expired, deleted, nextReq>>

\* ---- exchangeForInstallationToken ---------------------------------------
NeverCleansUp == FALSE

\* if (env.DEVICE_CODES), before the delete
CleansUp == env.DEVICE_CODES

FailedExchangeFailsPoll(q, finalToken) ==
    IF finalToken = q.oauth
    THEN Respond(q, ServerError("Failed to exchange for installation token"))
    ELSE [q EXCEPT !.pc = "poll_delete", !.finalToken = finalToken]

\* The exchange has returned finalToken to the poll.
Exchanged(q, finalToken) ==
    IF CleansUp
    THEN [q EXCEPT !.pc = "poll_delete", !.finalToken = finalToken]
    ELSE Respond([q EXCEPT !.finalToken = finalToken],
                 TokenResponse(finalToken, q.oauth, q.token))

\* GET /user/installations is answered: not ok, without an as-a-bot
\* installation, or with one.
InstallationsReturn(r) ==
    /\ reqs[r].pc = "installations"
    /\ \E outcome \in {"not_ok", "not_installed", "installed"} :
         LET q == reqs[r]
         IN Step(r, IF outcome = "installed" /\ env.APP_CREDENTIALS
                    THEN [q EXCEPT !.pc = "access_tokens",
                                   !.upstreamCalls = @ + 1]
                    ELSE Exchanged(q, q.oauth))
    /\ UNCHANGED <<others, env, store, issued, grants, expired, deleted, nextReq>>

\* POST /app/installations/{id}/access_tokens is answered.
AccessTokensReturn(r) ==
    /\ reqs[r].pc = "access_tokens"
    /\ \E ok \in BOOLEAN :
         LET q == reqs[r]
         IN Step(r, Exchanged(q, IF ok THEN InstallationToken(q.device_code)
                                       ELSE q.oauth))
    /\ UNCHANGED <<others, env, store, issued, grants, expired, deleted, nextReq>>

\* A fetch of the exchange throws, or signJWT does: the catch returns the
\* OAuth token.
ExchangeThrows(r) ==
    /\ reqs[r].pc \in {"installations", "access_tokens"}
    /\ Step(r, Exchanged(reqs[r], reqs[r].oauth))
    /\ UNCHANGED <<others, env, store, issued, grants, expired, deleted, nextReq>>

\* await env.DEVICE_CODES.delete(device_code), then the 200 Response.
WrongDeleteKey(q) == (q.device_code % MaxCodes) + 1

PollDeleteKey(q) == q.device_code

PollDeleteReturn(r) ==
    /\ reqs[r].pc = "poll_delete"
    /\ LET q == reqs[r]
           key == PollDeleteKey(q)
       IN /\ store' = KvDelete(store, key)
          /\ deleted' = [deleted EXCEPT ![key] = @ + 1]
          /\ Step(r, Respond([q EXCEPT !.deletes = Append(@, key)],
                             TokenResponse(q.finalToken, q.oauth, q.token)))
    /\ UNCHANGED <<others, env, issued, grants, expired, nextReq>>

PollDeleteThrows(r) ==
    /\ reqs[r].pc = "poll_delete"
    /\ Step(r, Threw(reqs[r], "KV delete failed",
                     ServerError("KV delete failed")))
    /\ UNCHANGED <<others, env, store, issued, grants, expired, deleted, nextReq>>

\* ---- the router, on a body no handler can read ---------------------------
\* JSON.parse throws: the router answers 400 and calls no handler.  The body
\* is null: the handler is called and its destructuring throws, which the
\* router's catch answers.
Unreadable(body) ==
    IF body = "invalid" THEN InvalidBody ELSE InternalServerError

BadBody ==
    /\ nextReq < MaxReq
    /\ nextReq' = nextReq + 1
    /\ \E kind \in {"start", "poll"}, body \in BadBodies :
         Step(FreeSlot, Respond([Idle EXCEPT !.kind = kind, !.body = body],
                                Unreadable(body)))
    /\ UNCHANGED <<others, env, store, issued, grants, expired, deleted>>

\* ---- the store's TTL ----------------------------------------------------
TtlExpire(d) ==
    /\ d \in DOMAIN store
    /\ store' = KvDelete(store, d)
    /\ expired' = expired \cup {d}
    /\ UNCHANGED <<others, env, issued, grants, deleted, nextReq, reqs, finished>>

\* Every awaited call completes.
Next ==
    \/ StartBegin
    \/ PollBegin
    \/ BadBody
    \/ \E r \in Requests :
        \/ StartFetchOk(r)
        \/ StartFetchNotOk(r)
        \/ StartPutReturn(r)
        \/ PollGetReturn(r)
        \/ PollFetchReturn(r)
        \/ InstallationsReturn(r)
        \/ AccessTokensReturn(r)
        \/ PollDeleteReturn(r)
    \/ \E d \in Codes : TtlExpire(d)

\* An awaited call may also throw.
Throws ==
    \E r \in Requests :
        \/ StartFetchThrows(r)
        \/ StartPutThrows(r)
        \/ PollGetThrows(r)
        \/ PollFetchThrows(r)
        \/ ExchangeThrows(r)
        \/ PollDeleteThrows(r)

NextFaults == Next \/ Throws

\* One request at a time, with every redirect_uri and scopes callers pass and every
\* body upstream sends an access token in.
AllAnswered == \A r \in Requests : reqs[r].kind = "idle"

StartAlone == AllAnswered /\ StartWith(StartBodies)

PollAlone == AllAnswered /\ PollBegin

BadBodyAlone == AllAnswered /\ BadBody

PollFetchBodies(r) == PollFetchWith(r, TokenBodies)

NextBodies ==
    \/ StartAlone
    \/ PollAlone
    \/ BadBodyAlone
    \/ \E r \in Requests :
        \/ StartFetchOk(r)
        \/ StartFetchNotOk(r)
        \/ StartPutReturn(r)
        \/ PollGetReturn(r)
        \/ PollFetchBodies(r)
        \/ InstallationsReturn(r)
        \/ AccessTokensReturn(r)
        \/ PollDeleteReturn(r)
    \/ \E d \in Codes : TtlExpire(d)

Spec == Init /\ [][Next]_vars

SpecBodies == Init /\ [][NextBodies]_vars

\* The awaited call request r waits for returns or throws.
Completes(r) ==
    \/ StartFetchOk(r) \/ StartFetchNotOk(r) \/ StartFetchThrows(r)
    \/ StartPutReturn(r) \/ StartPutThrows(r)
    \/ PollGetReturn(r) \/ PollGetThrows(r)
    \/ PollFetchReturn(r) \/ PollFetchThrows(r)
    \/ InstallationsReturn(r) \/ AccessTokensReturn(r) \/ ExchangeThrows(r)
    \/ PollDeleteReturn(r) \/ PollDeleteThrows(r)

\* Every store call and every upstream call eventually returns or throws.
NextLive ==
    \/ AllAnswered /\ StartBegin
    \/ AllAnswered /\ PollBegin
    \/ AllAnswered /\ BadBody
    \/ \E r \in Requests : Completes(r)
    \/ \E d \in Codes : TtlExpire(d)

SpecLive ==
    Init /\ [][NextLive]_vars /\ \A r \in Requests : WF_vars(Completes(r))

SpecFaults == Init /\ [][NextFaults]_vars

\* ---- Web flow: POST /auth/start ------------------------------------------
\* randomUUID, the client id check, then the put of the pending state.
AuthStartBegin ==
    /\ webNextReq < MaxWebReq
    /\ WebSlotFree
    /\ webIssued < MaxStates
    /\ webNextReq' = webNextReq + 1
    /\ webIssued' = webIssued + 1
    /\ LET state == webIssued + 1
           q == [WebIdle EXCEPT !.kind = "start", !.state = state]
       IN  IF ~webEnv.GITHUB_CLIENT_ID
           THEN WebStep(WebFreeSlot, WebRespond(q, WebClientIdNotConfigured))
           ELSE IF webEnv.AUTH_STATES
           THEN WebStep(WebFreeSlot, [q EXCEPT !.pc = "start_put"])
           ELSE WebStep(WebFreeSlot, WebRespond(q, AuthStarted(state)))
    /\ UNCHANGED <<deviceVars, brokerVars, webEnv, authStates, webExpired>>

AuthStartPutReturn(r) ==
    /\ webReqs[r].pc = "start_put"
    /\ LET q == webReqs[r]
           value == PendingState
       IN  /\ authStates' = KvPut(authStates, q.state, value, PendingTtl)
           /\ WebStep(r, WebRespond(
                  [q EXCEPT !.puts = Append(@, <<q.state, value>>)],
                  AuthStarted(q.state)))
    /\ UNCHANGED <<deviceVars, brokerVars, webEnv, webIssued, webExpired, webNextReq>>

AuthStartPutThrows(r) ==
    /\ webReqs[r].pc = "start_put"
    /\ WebStep(r, WebThrew(webReqs[r], "KV put failed"))
    /\ UNCHANGED <<deviceVars, brokerVars, webEnv, authStates, webIssued, webExpired,
                   webNextReq>>

\* ---- Web flow: GET /auth/callback ----------------------------------------
\* The states a caller can name: the issued ones, one never issued, none.
NamedStates == (1..webIssued) \cup {UnknownState, NoState}

CallbackQueries ==
    {u \in [code : AuthCodes \cup {NoAuthCode}, state : NamedStates] :
        u.code = NoAuthCode => u.state \in {NoState, UnknownState}}

\* What follows the verification of the state: the secret check and the fetch.
ExchangeOrFail(q) ==
    IF ~webEnv.GITHUB_CLIENT_SECRET
    THEN WebRespond(q, ClientSecretNotConfigured)
    ELSE [q EXCEPT !.pc = "callback_fetch", !.upstreamCalls = @ + 1]

AuthCallbackBegin ==
    /\ webNextReq < MaxWebReq
    /\ WebSlotFree
    /\ webNextReq' = webNextReq + 1
    /\ \E u \in CallbackQueries :
         LET q == [WebIdle EXCEPT !.kind = "callback", !.code = u.code,
                                  !.state = u.state]
         IN  IF u.code = NoAuthCode \/ u.state = NoState
             THEN WebStep(WebFreeSlot, WebRespond(q, MissingCodeOrState))
             ELSE IF webEnv.AUTH_STATES
             THEN WebStep(WebFreeSlot, [q EXCEPT !.pc = "callback_get"])
             ELSE WebStep(WebFreeSlot, ExchangeOrFail(q))
    /\ UNCHANGED <<deviceVars, brokerVars, webEnv, authStates, webIssued, webExpired>>

AuthCallbackGetReturn(r) ==
    /\ webReqs[r].pc = "callback_get"
    /\ LET q == [webReqs[r] EXCEPT !.gets = @ + 1]
       IN  IF q.state \notin DOMAIN authStates
           THEN WebStep(r, WebRespond(q, InvalidOrExpiredState))
           ELSE WebStep(r, ExchangeOrFail(
                    [q EXCEPT !.stateData = authStates[q.state]]))
    /\ UNCHANGED <<deviceVars, brokerVars, webEnv, authStates, webIssued, webExpired,
                   webNextReq>>

AuthCallbackGetThrows(r) ==
    /\ webReqs[r].pc = "callback_get"
    /\ WebStep(r, WebThrew(webReqs[r], "KV get failed"))
    /\ UNCHANGED <<deviceVars, brokerVars, webEnv, authStates, webIssued, webExpired,
                   webNextReq>>

AuthCallbackFetchReturn(r) ==
    /\ webReqs[r].pc = "callback_fetch"
    /\ \E tokenData \in TokenData(webReqs[r].code) :
         LET q == [webReqs[r] EXCEPT !.tokenData = tokenData]
         IN  IF tokenData.error # ""
             THEN WebStep(r, WebRespond(q, ExchangeRefused(tokenData)))
             ELSE IF webEnv.AUTH_STATES
             THEN WebStep(r, [q EXCEPT !.pc = "callback_put"])
             ELSE WebStep(r, WebRespond(q, AuthorizationSuccessful))
    /\ UNCHANGED <<deviceVars, brokerVars, webEnv, authStates, webIssued, webExpired,
                   webNextReq>>

AuthCallbackFetchThrows(r) ==
    /\ webReqs[r].pc = "callback_fetch"
    /\ WebStep(r, WebThrew(webReqs[r], "fetch failed"))
    /\ UNCHANGED <<deviceVars, brokerVars, webEnv, authStates, webIssued, webExpired,
                   webNextReq>>

\* The value the callback stores for polling.
CallbackValue(tokenData) == CompletedState(tokenData)

AuthCallbackPutReturn(r) ==
    /\ webReqs[r].pc = "callback_put"
    /\ LET q == webReqs[r]
           value == CallbackValue(q.tokenData)
       IN  /\ authStates' = KvPut(authStates, q.state, value, CompletedTtl)
           /\ WebStep(r, WebRespond(
                  [q EXCEPT !.puts = Append(@, <<q.state, value>>)],
                  AuthorizationSuccessful))
    /\ UNCHANGED <<deviceVars, brokerVars, webEnv, webIssued, webExpired, webNextReq>>

AuthCallbackPutThrows(r) ==
    /\ webReqs[r].pc = "callback_put"
    /\ WebStep(r, WebThrew(webReqs[r], "KV put failed"))
    /\ UNCHANGED <<deviceVars, brokerVars, webEnv, authStates, webIssued, webExpired,
                   webNextReq>>

\* ---- Web flow: POST /auth/poll -------------------------------------------
\* The states whose token a poll has returned (kept for the properties only:
\* late marks a poll received after that, repeat a poll that returns the
\* token of such a state).
Delivered ==
    {q.state : q \in {p \in webFinished :
                          p.kind = "poll" /\ p.response.status = 200}}

AuthPollBegin ==
    /\ webNextReq < MaxWebReq
    /\ WebSlotFree
    /\ webNextReq' = webNextReq + 1
    /\ \E state \in NamedStates :
         LET q == [WebIdle EXCEPT !.kind = "poll", !.state = state,
                                  !.late = (state \in Delivered)]
         IN  IF state = NoState
             THEN WebStep(WebFreeSlot, WebRespond(q, StateRequired))
             ELSE IF ~webEnv.AUTH_STATES
             THEN WebStep(WebFreeSlot, WebRespond(q, StorageNotConfigured))
             ELSE WebStep(WebFreeSlot, [q EXCEPT !.pc = "poll_get"])
    /\ UNCHANGED <<deviceVars, brokerVars, webEnv, authStates, webIssued, webExpired>>

AuthPollGetReturn(r) ==
    /\ webReqs[r].pc = "poll_get"
    /\ LET q == [webReqs[r] EXCEPT !.gets = @ + 1]
           stateData == authStates[q.state]
       IN  IF q.state \notin DOMAIN authStates
           THEN WebStep(r, WebRespond(q, StateExpired))
           ELSE IF stateData.status = "pending"
           THEN WebStep(r, WebRespond([q EXCEPT !.stateData = stateData],
                                      AuthorizationPending))
           ELSE IF stateData.status = "completed"
           THEN WebStep(r, [q EXCEPT !.stateData = stateData,
                                     !.pc = "poll_delete"])
           ELSE WebStep(r, WebRespond([q EXCEPT !.stateData = stateData],
                                      InvalidStateStatus))
    /\ UNCHANGED <<deviceVars, brokerVars, webEnv, authStates, webIssued, webExpired,
                   webNextReq>>

AuthPollGetThrows(r) ==
    /\ webReqs[r].pc = "poll_get"
    /\ WebStep(r, WebThrew(webReqs[r], "KV get failed"))
    /\ UNCHANGED <<deviceVars, brokerVars, webEnv, authStates, webIssued, webExpired,
                   webNextReq>>

AuthPollDeleteReturn(r) ==
    /\ webReqs[r].pc = "poll_delete"
    /\ LET q == webReqs[r]
       IN  /\ authStates' = KvDelete(authStates, q.state)
           /\ WebStep(r, WebRespond(
                  [q EXCEPT !.deletes = Append(@, q.state),
                            !.repeat = (q.state \in Delivered)],
                  TokenDelivered(q.stateData)))
    /\ UNCHANGED <<deviceVars, brokerVars, webEnv, webIssued, webExpired, webNextReq>>

AuthPollDeleteThrows(r) ==
    /\ webReqs[r].pc = "poll_delete"
    /\ WebStep(r, WebThrew(webReqs[r], "KV delete failed"))
    /\ UNCHANGED <<deviceVars, brokerVars, webEnv, authStates, webIssued, webExpired,
                   webNextReq>>

\* The store removes a state whose expirationTtl has run out.
AuthStateExpire(state) ==
    /\ state \in DOMAIN authStates
    /\ authStates' = KvDelete(authStates, state)
    /\ webExpired' = webExpired \cup {state}
    /\ UNCHANGED <<deviceVars, brokerVars, webEnv, webIssued, webNextReq, webReqs,
                   webFinished>>

NextWeb ==
    \/ AuthStartBegin
    \/ AuthCallbackBegin
    \/ AuthPollBegin
    \/ \E r \in WebRequests :
        \/ AuthStartPutReturn(r)
        \/ AuthStartPutThrows(r)
        \/ AuthCallbackGetReturn(r)
        \/ AuthCallbackGetThrows(r)
        \/ AuthCallbackFetchReturn(r)
        \/ AuthCallbackFetchThrows(r)
        \/ AuthCallbackPutReturn(r)
        \/ AuthCallbackPutThrows(r)
        \/ AuthPollGetReturn(r)
        \/ AuthPollGetThrows(r)
        \/ AuthPollDeleteReturn(r)
        \/ AuthPollDeleteThrows(r)
    \/ \E state \in States : AuthStateExpire(state)

SpecWeb == InitWeb /\ [][NextWeb]_vars

\* ---- Token broker: responses ----------------------------------------------
\* env.ALLOWED_ORIGINS.split(','), or [] when the variable is not set.
AllowedOrigins == brokerEnv.ALLOWED_ORIGINS

ReflectsAnyOrigin(origin, allowedOrigins) == origin

\* The Access-Control-Allow-Origin header of corsHeaders, NoHeader if not set.
AllowOrigin(origin, allowedOrigins) ==
    IF origin # NoOrigin
       /\ \E i \in DOMAIN allowedOrigins : allowedOrigins[i] = origin
    THEN origin
    ELSE NoHeader

\* A response of the router, or one of a handler after the router has put the
\* security headers on it.
Answer(q, status, error) ==
    [q EXCEPT !.pc = "done",
              !.response = [BrokerNoResponse EXCEPT
                               !.status = status, !.error = error,
                               !.allowOrigin =
                                   AllowOrigin(q.origin, AllowedOrigins)]]

\* The 201 of handleToken: a token of installation q.installationId.
Minted(q) ==
    [q EXCEPT !.pc = "done",
              !.response = [BrokerNoResponse EXCEPT
                               !.status = 201,
                               !.token = q.installationId,
                               !.allowOrigin =
                                   AllowOrigin(q.origin, AllowedOrigins)]]

\* ---- Token broker: authentication ------------------------------------------
StartsWithBearer(authorization) == authorization \in {GoodBearer, BadBearer}

\* GET /user with the caller's token: the user, or null.
VerifyGitHubToken(authorization) ==
    IF authorization = GoodBearer THEN "alice" ELSE ""

AcceptsAnySignature(q, secret) == q.clientAuth # NoClientAuth

VerifyHMAC(q, secret) ==
    /\ q.clientAuth # NoClientAuth
    /\ q.clientAuth = Hmac(secret, Message(q.method, q.path, q.rawBody))

\* The permissions of repoAccess, "" for null.
CheckRepositoryAccess(repository) ==
    IF ~Visible(repository) THEN ""
    ELSE IF github.permission # Unlisted THEN github.permission
    ELSE IF ~Private(repository) THEN "read"
    ELSE ""

\* The resources validatePermissions compares the user's level with.
Checked(resource) == resource \in {"contents", "pull_requests", "issues"}

ValidatePermissions(userPermission, appPermissions) ==
    \A resource \in DOMAIN appPermissions :
        Checked(resource) =>
            PermissionLevel(userPermission)
                >= PermissionLevel(appPermissions[resource])

\* ---- Token broker: POST /token ---------------------------------------------
\* The installation the body names, 0 if it has to be looked up.
RequestedInstallation(q) == q.body.installation_id

\* handleToken after the installation is known.
WithInstallation(q) ==
    IF q.user # ""
    THEN [q EXCEPT !.pc = "get_permissions"]
    ELSE [q EXCEPT !.pc = "access_tokens"]

\* handleToken up to the creation of the app's JWT.
HandleToken(p) ==
    LET q == [p EXCEPT !.handler = "handleToken"]
    IN  IF q.body.installation_id = NoInstallation
           /\ q.body.repository = NoRepo
        THEN Answer(q, 400,
                 "Either installation_id or {owner, repo} must be provided")
        ELSE IF ~brokerEnv.APP_CONFIGURED
        THEN Answer(q, 500, "GitHub App configuration missing")
        ELSE [q EXCEPT !.pc = "create_jwt"]

\* The switch of the router.
Route(q) ==
    CASE q.path = "/token" -> HandleToken(q)
      [] q.path = "/user-token/start" ->
             [q EXCEPT !.pc = "handler", !.handler = "handleUserTokenStart"]
      [] q.path = "/user-token/poll" ->
             [q EXCEPT !.pc = "handler", !.handler = "handleUserTokenPoll"]
      [] OTHER -> Answer(q, 404, "Not found")

\* ---- Token broker: the router ----------------------------------------------
Probes ==
    [method : {"OPTIONS", "GET", "PUT"}, path : {"/health", "/token"},
     origin : Origins, rawBody : {""},
     authorization : {NoAuthorization}, clientAuth : {NoClientAuth}]

PostBodies(path) ==
    IF path = "/token" THEN RawBodies ELSE {"{}", InvalidJson}

Posts ==
    UNION {
        {[method |-> "POST", path |-> path, origin |-> origin,
          rawBody |-> rawBody, authorization |-> c.authorization,
          clientAuth |-> c.clientAuth] :
            c \in Credentials("POST", path, rawBody)} :
        path \in {"/token", "/user-token/start", "/nowhere"},
        origin \in {NoOrigin, ExampleOrigin},
        rawBody \in RawBodies }

\* From the CORS headers to the first awaited call of the authentication, or
\* of the handler when the request is authenticated by its HMAC.
Receive ==
    /\ call.pc = "idle"
    /\ \E request \in Probes \cup
                      {u \in Posts : u.rawBody \in PostBodies(u.path)} :
         LET q == [NoCall EXCEPT !.method = request.method,
                                 !.path = request.path,
                                 !.origin = request.origin,
                                 !.rawBody = request.rawBody,
                                 !.authorization = request.authorization,
                                 !.clientAuth = request.clientAuth]
             body == JsonParse(q.rawBody)
             secret == brokerEnv.BROKER_CLIENT_SECRET
         IN  call' =
               IF q.method = "OPTIONS" THEN Answer(q, 204, "")
               ELSE IF q.method = "GET" /\ q.path \in {"/", "/health"}
               THEN Answer(q, 200, "")
               ELSE IF q.method # "POST"
               THEN Answer(q, 405, "Method not allowed")
               ELSE IF body = Unparsed
               THEN Answer(q, 400, "Invalid request body or authentication")
               ELSE IF StartsWithBearer(q.authorization)
               THEN [q EXCEPT !.pc = "verify_token", !.body = body]
               ELSE IF secret = NoSecret
               THEN Answer(q, 401,
                        "Authentication required. Use GitHub token in Authorization header.")
               ELSE IF ~VerifyHMAC(q, secret)
               THEN Answer(q, 401,
                        "Invalid authentication. Use GitHub token in Authorization header.")
               ELSE Route([q EXCEPT !.body = body])
    /\ UNCHANGED <<deviceVars, webVars, brokerEnv, github, rateLimit>>

\* verifyGitHubToken returns: 401, the 400 for an installation_id without
\* owner and repo, or on to checkRepositoryAccess or to the handler.
VerifyTokenReturn ==
    /\ call.pc = "verify_token"
    /\ LET user == VerifyGitHubToken(call.authorization)
           q == [call EXCEPT !.user = user]
       IN  call' =
             IF user = "" THEN Answer(q, 401, "Invalid GitHub token")
             ELSE IF q.path # "/token" THEN Route(q)
             ELSE IF q.body.repository = NoRepo
                     /\ q.body.installation_id # NoInstallation
             THEN Answer(q, 400,
                      "When using GitHub user authentication, owner and repo must be specified")
             ELSE [q EXCEPT !.pc = "check_access"]
    /\ UNCHANGED <<deviceVars, webVars, brokerEnv, github, rateLimit>>

CheckAccessReturn ==
    /\ call.pc = "check_access"
    /\ LET permissions == CheckRepositoryAccess(call.body.repository)
       IN  call' =
             IF permissions = "" THEN Answer(call, 403, "Access denied")
             ELSE Route([call EXCEPT !.permissions = permissions,
                                     !.verified = call.body.repository])
    /\ UNCHANGED <<deviceVars, webVars, brokerEnv, github, rateLimit>>

\* createAppJWT returns; the installation is the body's, or is looked up.
CreateJwtReturn ==
    /\ call.pc = "create_jwt"
    /\ call' =
         IF RequestedInstallation(call) # NoInstallation
         THEN WithInstallation(
                  [call EXCEPT !.installationId = RequestedInstallation(call)])
         ELSE [call EXCEPT !.pc = "get_installation"]
    /\ UNCHANGED <<deviceVars, webVars, brokerEnv, github, rateLimit>>

\* createAppJWT throws: the catch of the router answers.
CreateJwtThrows ==
    /\ call.pc = "create_jwt"
    /\ call' = Answer(call, 500, "Internal server error")
    /\ UNCHANGED <<deviceVars, webVars, brokerEnv, github, rateLimit>>

GetInstallationReturn ==
    /\ call.pc = "get_installation"
    /\ call' = WithInstallation(
                   [call EXCEPT !.installationId =
                                    InstallationOf(call.body.repository)])
    /\ UNCHANGED <<deviceVars, webVars, brokerEnv, github, rateLimit>>

\* githubRequest throws for a response that is not ok.
GetInstallationFails ==
    /\ call.pc = "get_installation"
    /\ call' = Answer(call, 404, "GitHub API error: Not Found")
    /\ UNCHANGED <<deviceVars, webVars, brokerEnv, github, rateLimit>>

GetPermissionsReturn ==
    /\ call.pc = "get_permissions"
    /\ LET q == [call EXCEPT !.appPermissions = github.appPermissions]
       IN  call' =
             IF ValidatePermissions(q.permissions, q.appPermissions)
             THEN [q EXCEPT !.pc = "access_tokens"]
             ELSE Answer(q, 403, "Permission denied")
    /\ UNCHANGED <<deviceVars, webVars, brokerEnv, github, rateLimit>>

\* getAppInstallationPermissions returns null.
GetPermissionsFails ==
    /\ call.pc = "get_permissions"
    /\ call' = Answer(call, 500,
                   "Failed to retrieve app installation permissions")
    /\ UNCHANGED <<deviceVars, webVars, brokerEnv, github, rateLimit>>

TokenCreated ==
    /\ call.pc = "access_tokens"
    /\ call' = Minted(call)
    /\ UNCHANGED <<deviceVars, webVars, brokerEnv, github, rateLimit>>

TokenRefused ==
    /\ call.pc = "access_tokens"
    /\ call' = Answer(call, 404, "GitHub API error: Not Found")
    /\ UNCHANGED <<deviceVars, webVars, brokerEnv, github, rateLimit>>

\* The response of a device-flow handler, with the security headers set on it.
HandlerReturn ==
    /\ call.pc = "handler"
    /\ \E status \in {200, 400} : call' = Answer(call, status, "")
    /\ UNCHANGED <<deviceVars, webVars, brokerEnv, github, rateLimit>>

\* The response is sent; the worker keeps nothing of the request.
Forget ==
    /\ call.pc = "done"
    /\ call' = NoCall
    /\ UNCHANGED <<deviceVars, webVars, brokerEnv, github, rateLimit>>

NextBroker ==
    \/ Receive
    \/ Forget
    \/ VerifyTokenReturn
    \/ CheckAccessReturn
    \/ CreateJwtReturn
    \/ CreateJwtThrows
    \/ GetInstallationReturn
    \/ GetInstallationFails
    \/ GetPermissionsReturn
    \/ GetPermissionsFails
    \/ TokenCreated
    \/ TokenRefused
    \/ HandlerReturn

SpecBroker == InitBroker /\ [][NextBroker]_vars

\* ---- properties ---------------------------------------------------------
Pending(q) == q.kind = "poll" /\ q.answer = "authorization_pending"
SlowedDown(q) == q.kind = "poll" /\ q.answer = "slow_down"
Transient(q) == Pending(q) \/ SlowedDown(q)
ReturnedToken(q) == q.kind = "poll" /\ q.response.status = 200

\* C1 (single use): once a poll on d has returned a token, every poll on d
\* received later is answered with the terminal 400 expired_token response,
\* without a token.
C1_SingleUse ==
    /\ \A q \in Polls :
         q.late => /\ q.response.status = 400
                   /\ q.response.error = "expired_token"
                   /\ q.response.error_description = "Device code has expired"
                   /\ q.response.access_token = NoToken
    /\ \A r \in Requests :
         reqs[r].late => reqs[r].oauth = NoToken /\ reqs[r].upstreamCalls = 0

C1_Witness ==
    \E q \in Polls : q.late /\ q.response.status = 400 /\ q.device_code \in Resolved

\* C2 as written: for every device code d, a session for d is in the store
\* iff d was created by a successful start and has neither been resolved
\* nor expired.
C2_Original ==
    \A d \in Codes :
        d \in DOMAIN store <=> (d \in Created /\ d \notin Resolved /\ d \notin expired)

\* C2 (amended): when a backing store is configured, a session for d is in
\* the store iff d was created by a successful start and has neither been
\* resolved (a poll returned its token) nor expired by the store's TTL.
C2_SessionIffUnresolved ==
    env.DEVICE_CODES =>
        \A d \in Codes :
            d \in DOMAIN store <=>
                (d \in Created /\ d \notin Resolved /\ d \notin expired)

C2_Witness ==
    /\ env.DEVICE_CODES
    /\ \E d, e \in Created : /\ d \in DOMAIN store
                             /\ e \in Resolved /\ e \notin DOMAIN store

\* C3 as written: for every device code whose token is issued the store
\* delete of that key is performed exactly once over the whole execution,
\* and polls answered authorization_pending or slow_down delete nothing.
C3_Original ==
    /\ \A d \in Resolved : deleted[d] = 1
    /\ \A q \in Polls : Transient(q) => q.deletes = <<>>

\* C3 (amended): every poll that returns a token has performed the store
\* delete of its device code exactly once, so the key of an issued token is
\* deleted at least once (once per poll that returns a token); polls answered
\* authorization_pending or slow_down delete nothing.
C3_DeleteOncePerTokenPoll ==
    /\ \A q \in Polls : ReturnedToken(q) => q.deletes = <<q.device_code>>
    /\ \A d \in Resolved : deleted[d] >= 1
    /\ \A q \in Polls : Transient(q) => q.deletes = <<>>

C3_Witness ==
    \E d \in Resolved : deleted[d] = 2

\* The session start stored for d: what upstream issued with d, stamped and
\* with the redirect_uri of that start, under the TTL expires_in.
StoredAtStart(d) ==
    LET s == CHOOSE s \in Starts : s.response.device_code = d
    IN [Session(grants[d], s.redirect_uri) EXCEPT !.ttl = grants[d].expires_in]

\* C4 (idempotent pending): every poll that upstream answers
\* authorization_pending returns 202 with the interval stored in the session
\* (the one start stored, hence the same for all of them) and performs no
\* delete and no put; a session in the store is always the one start stored.
C4_IdempotentPending ==
    /\ \A q \in Polls :
         Pending(q) => /\ q.response.status = 202
                       /\ q.response.interval = grants[q.device_code].interval
                       /\ q.deletes = <<>> /\ q.puts = <<>>
    /\ \A d \in DOMAIN store : store[d] = StoredAtStart(d)

\* Three requests, all answered: a start and twice the same pending poll,
\* the session still stored.
C4_Witness ==
    /\ nextReq >= 3 /\ \A r \in Requests : reqs[r].kind = "idle"
    /\ Cardinality(finished) = 2
    /\ \E s \in Starts : s.response.status = 200
    /\ \E q \in Polls : Pending(q) /\ q.response.status = 202
                        /\ q.device_code \in DOMAIN store

\* C5 (slow-down widening): every poll that upstream answers slow_down
\* returns 429 with the session's stored interval plus 5, which is strictly
\* greater than the interval start stored.
C5_SlowDownWidening ==
    \A q \in Polls :
        SlowedDown(q) =>
            /\ q.response.status = 429
            /\ q.response.interval = grants[q.device_code].interval + 5
            /\ q.response.interval > grants[q.device_code].interval

C5_Witness ==
    \E q \in Polls : SlowedDown(q) /\ q.response.interval = 15

AbsentSeen(q) == q.kind = "poll" /\ q.seen \in {"never", "expired", "resolved"}

\* C6 (indistinguishable absence): a poll whose lookup finds no session gets
\* the same response (400, expired_token, "Device code has expired") whether
\* the code was never created, has expired by TTL or is already resolved.
C6_IndistinguishableAbsence ==
    \A p, q \in Polls :
        AbsentSeen(p) /\ AbsentSeen(q) =>
            /\ p.response = q.response
            /\ p.response.status = 400
            /\ p.response.error = "expired_token"
            /\ p.response.error_description = "Device code has expired"

C6_Witness ==
    \E p, q \in Polls :
        /\ AbsentSeen(p) /\ AbsentSeen(q) /\ p.seen # q.seen
        /\ p.response = q.response /\ p.response.status = 400

Is503(response) ==
    /\ response.status = 503 /\ response.error = "server_error"
    /\ response.access_token = NoToken

\* A start that got its codes from upstream answers 200 with them.
StartReturnsUpstreamCodes ==
    \A q \in Starts :
        q.data # NoData =>
            /\ q.response.status = 200
            /\ q.response.device_code = q.data.device_code
            /\ q.response.expires_in = q.data.expires_in
            /\ q.response.interval = q.data.interval
            /\ q.data = grants[q.data.device_code]

NoPollCallsUpstream ==
    /\ \A q \in Polls : q.upstreamCalls = 0
    /\ \A r \in Requests : reqs[r].kind = "poll" => reqs[r].upstreamCalls = 0

C8_MissingInput ==
    \A q \in Polls :
        q.device_code = NoCode =>
            /\ q.response.status = 400
            /\ q.gets = 0 /\ q.puts = <<>> /\ q.deletes = <<>>
            /\ q.upstreamCalls = 0

PutOf(response) == <<response.device_code, response.expires_in>>

\* C9 as written: every start that returns 200 has performed exactly one
\* store put, with the returned device_code as key and the returned
\* expires_in as TTL; a start that does not return 200 has performed no put.
C9_Original ==
    \A q \in Starts :
        IF q.response.status = 200 THEN q.puts = <<PutOf(q.response)>>
        ELSE q.puts = <<>>

\* C9 (amended): when a backing store is configured, every start that
\* returns 200 has performed exactly one store put, with the returned
\* device_code as key and the returned expires_in as TTL (with no store
\* configured it has performed none); a start that does not return 200 has
\* performed no put.
C9_OnePutPerStart ==
    \A q \in Starts :
        IF q.response.status = 200 /\ env.DEVICE_CODES
        THEN /\ q.puts = <<PutOf(q.response)>>
             /\ q.response.device_code = q.data.device_code
        ELSE q.puts = <<>>

C9_Witness ==
    \E q \in Starts :
        /\ q.response.status = 200 /\ q.puts = <<PutOf(q.response)>>
        /\ q.response.device_code \in DOMAIN store
        /\ store[q.response.device_code].ttl = q.response.expires_in

Moved(r) == reqs'[r] # reqs[r]

Without(kv, key) == [k \in DOMAIN kv \ {key} |-> kv[k]]

\* C10 (poll never writes): a step of a poll leaves the store as it is, except
\* the step that returns the token, which removes the polled key and nothing
\* else; receiving a request changes nothing in the store.
C10_PollFrame ==
    [][ /\ nextReq' # nextReq => store' = store
        /\ \A r \in Requests :
             reqs[r].kind = "poll" /\ Moved(r) =>
                \/ store' = store
                \/ /\ reqs[r].answer = "success"
                   /\ store' = Without(store, reqs[r].device_code)
                   /\ \E q \in finished' :
                        /\ ReturnedToken(q)
                        /\ q.device_code = reqs[r].device_code ]_vars

C10_Witness ==
    \E q \in Polls :
        /\ ReturnedToken(q) /\ q.device_code \notin DOMAIN store
        /\ \E d \in DOMAIN store : d # q.device_code

Terminal(q) == q.kind = "poll" /\ q.answer \in {"access_denied", "expired_token"}

\* C11 (terminal upstream error): every poll that upstream answers with an
\* error code other than authorization_pending and slow_down returns 400 with
\* that code as error and upstream's description as error_description, has
\* performed no delete and no put, and any two polls that got the same
\* upstream error got the same response.
C11_TerminalUpstreamError ==
    /\ \A q \in Polls :
         Terminal(q) =>
            /\ q.response.status = 400
            /\ q.response.error = q.answer
            /\ q.response.error_description = UpstreamDescription(q.answer)
            /\ q.response.access_token = NoToken
            /\ q.deletes = <<>> /\ q.puts = <<>>
    /\ \A p, q \in Polls :
         Terminal(p) /\ Terminal(q) /\ p.answer = q.answer =>
            p.response = q.response

\* A poll on d is answered access_denied; a later poll on d gets the same
\* upstream error and the same response, the session still stored.
C11_Witness ==
    \E p, q \in Polls :
        /\ Terminal(p) /\ Terminal(q) /\ p.answer = "access_denied"
        /\ p.device_code = q.device_code /\ p.answer = q.answer
        /\ ~p.afterFailed /\ q.afterFailed
        /\ p.response = q.response /\ p.response.status = 400
        /\ p.response.error_description # ""
        /\ p.device_code \in DOMAIN store

\* C12 as written: once a poll on d has returned a terminal upstream error,
\* no poll on d received later returns a token.
C12_Original ==
    \A q \in Polls : q.afterFailed => q.response.access_token = NoToken

\* C12 (amended): a terminal upstream error leaves the session where it is:
\* the session of a code that got one stays in the store until the TTL
\* removes it or a poll that returns a token deletes it, and a poll (received
\* after the error or not) returns a token only when upstream has answered
\* its own exchange request with success for a session it found.
C12_FailedKeepsSession ==
    /\ \A q \in Polls :
         ReturnedToken(q) =>
            /\ q.answer = "success" /\ q.seen = "found"
            /\ q.oauth = OAuthToken(q.device_code)
    /\ \A d \in Failed :
         d \in DOMAIN store \/ d \in expired \/ d \in Resolved

C12_Witness ==
    \E q \in Polls :
        /\ q.afterFailed /\ ReturnedToken(q) /\ q.answer = "success"
        /\ q.device_code \in Failed /\ q.device_code \notin DOMAIN store

\* C13 (expiry): every poll on d received after the store's TTL has removed
\* the session of d returns the terminal 400 expired_token response, not 202
\* or 429, and issues no upstream request.
C13_ExpiredStaysExpired ==
    /\ \A q \in Polls :
         q.afterExpired =>
            /\ q.response.status = 400
            /\ q.response.error = "expired_token"
            /\ q.response.error_description = "Device code has expired"
            /\ q.response.status \notin {202, 429}
            /\ q.upstreamCalls = 0
    /\ \A r \in Requests : reqs[r].afterExpired => reqs[r].upstreamCalls = 0

C13_Witness ==
    \E q \in Polls :
        /\ q.afterExpired /\ q.response.status = 400 /\ q.gets = 1
        /\ q.device_code \in expired /\ q.device_code \notin Resolved

StoreTrips(q) == q.gets + Len(q.puts) + Len(q.deletes)

PollsSoFar == Polls \cup {reqs[r] : r \in {x \in Requests : reqs[x].kind = "poll"}}

C15_ExceptionsAnswered ==
    \A q \in Polls :
        q.thrown # "" =>
            /\ q.response.status = 500
            /\ q.response.error = "server_error"
            /\ q.response.error_description = q.thrown

\* C16 (no client identifier): with no client identifier configured every
\* start returns 500, with the configuration error when its body was read,
\* and has made no upstream request and no store put; upstream has issued no
\* code and the store is empty.
C16_NoClientId ==
    ~env.GITHUB_CLIENT_ID =>
        /\ \A q \in Starts :
             /\ q.response.status = 500
             /\ q.body = "object" =>
                   q.response.error = "GitHub Client ID not configured"
             /\ q.upstreamCalls = 0 /\ q.puts = <<>>
        /\ \A r \in Requests : reqs[r].kind # "start"
        /\ issued = 0 /\ store = <<>>

C16_Witness ==
    /\ ~env.GITHUB_CLIENT_ID
    /\ \E q \in Starts :
         /\ q.body = "object" /\ q.response.status = 500
         /\ q.response.error = "GitHub Client ID not configured"

NotOk(q) == q.kind = "start" /\ q.answer = "not_ok"

\* C17 as written: a start whose device-authorization request upstream
\* answered with a non-ok response that carries an error returns 500 with
\* upstream's error as error and upstream's error_description as
\* error_description, has made one upstream request and no put.
C17_Original ==
    \A q \in Starts :
        NotOk(q) /\ q.failure.error # "" =>
            /\ q.response.status = 500
            /\ q.response.error = q.failure.error
            /\ q.response.error_description = q.failure.error_description
            /\ q.upstreamCalls = 1 /\ q.puts = <<>>

\* C17 (amended): a start whose device-authorization request upstream
\* answered with a non-ok response returns 500 with a single error field and
\* no error_description: the error field is upstream's error_description when
\* there is one, else upstream's error when there is one, else 'Failed to
\* start device flow'; it has made one upstream request and no put.
C17_StartUpstreamFailure ==
    \A q \in Starts :
        NotOk(q) =>
            /\ q.response.status = 500
            /\ q.response.error =
                  (IF q.failure.error_description # ""
                   THEN q.failure.error_description
                   ELSE IF q.failure.error # "" THEN q.failure.error
                   ELSE "Failed to start device flow")
            /\ q.response.error_description = ""
            /\ q.response.device_code = NoCode
            /\ q.upstreamCalls = 1 /\ q.puts = <<>>

C17_Witness ==
    \E q \in Starts :
        /\ NotOk(q) /\ q.failure.error = "unauthorized_client"
        /\ q.failure.error_description = "client not allowed"
        /\ q.response.error = "client not allowed"

\* C18: every poll that returns a token returns the access token upstream
\* issued for its device code, with upstream's scope and upstream's
\* token_type.
C18_UpstreamTokenReturned ==
    \A q \in Polls :
        ReturnedToken(q) =>
            /\ q.response.access_token = OAuthToken(q.device_code)
            /\ q.response.scope = q.token.scope
            /\ q.token.token_type # "" =>
                  q.response.token_type = q.token.token_type

\* C19: every poll that returns a token returns as expires_at the current
\* time plus the expires_in seconds of the upstream body when the body has an
\* expires_in, and the current time plus 28800 seconds when it has none.
C19_ExpiresAt ==
    \A q \in Polls :
        ReturnedToken(q) =>
            q.response.expires_at =
                Now + 1000 * (IF q.token.expires_in = Absent THEN 28800
                              ELSE q.token.expires_in)

\* C20 (start response): a start that returns 200 returns the device_code,
\* user_code, verification_uri, expires_in and interval upstream sent and
\* nothing else: no created_at and no redirect_uri, whatever redirect_uri
\* its body carried.
C20_StartResponseFields ==
    \A q \in Starts :
        q.response.status = 200 =>
            /\ q.response =
                  [NoResponse EXCEPT !.status = 200,
                                     !.device_code = q.data.device_code,
                                     !.user_code = q.data.user_code,
                                     !.verification_uri = q.data.verification_uri,
                                     !.expires_in = q.data.expires_in,
                                     !.interval = q.data.interval]
            /\ q.data = grants[q.data.device_code]
            /\ q.response.user_code = UserCode(q.response.device_code)
            /\ q.response.verification_uri # ""
            /\ q.response.created_at = Absent
            /\ q.response.redirect_uri = NoUri

\* A start that carried a redirect_uri has stored it, with created_at, and
\* has returned neither.
C20_Witness ==
    \E q \in Starts :
        /\ q.response.status = 200 /\ q.redirect_uri # NoUri
        /\ q.response.device_code \in DOMAIN store
        /\ store[q.response.device_code].redirect_uri = q.redirect_uri
        /\ store[q.response.device_code].created_at = Now
        /\ q.response.redirect_uri = NoUri /\ q.response.created_at = Absent

Sends(q) == q.kind = "start" /\ q.upstreamCalls > 0

\* C21 (no scope upstream): no device-authorization request carries a scope
\* parameter, and any two starts that sent one sent the same parameters,
\* whatever scopes their bodies carried.
C21_ScopeSuppressed ==
    /\ \A q \in Starts : Sends(q) => q.sent.scope = NoScope /\ q.sent.client_id
    /\ \A r \in Requests :
         Sends(reqs[r]) => reqs[r].sent.scope = NoScope
    /\ \A p, q \in Starts : Sends(p) /\ Sends(q) => p.sent = q.sent

C21_Witness ==
    \E p, q \in Starts :
        /\ Sends(p) /\ Sends(q) /\ p.scopes = NoScope /\ q.scopes # NoScope
        /\ p.redirect_uri = q.redirect_uri /\ p.sent = q.sent

\* C23 (the slow_down bump is not persisted): the interval of a stored
\* session is always the one upstream issued with its code; every poll
\* answered slow_down, after earlier slow_down polls or not, returns that
\* interval plus 5, and every poll answered authorization_pending returns
\* that interval.
C23_BumpNotPersisted ==
    /\ \A d \in DOMAIN store : store[d].interval = grants[d].interval
    /\ \A q \in Polls :
         /\ SlowedDown(q) =>
               /\ q.data.interval = grants[q.device_code].interval
               /\ q.response.interval =
                     grants[q.device_code].interval + SlowDownOffset
         /\ Pending(q) =>
               q.response.interval = grants[q.device_code].interval

\* A poll received after a slow_down poll on the same code is answered
\* slow_down again, the session still stored.
C23_Witness ==
    \E q \in Polls :
        /\ q.afterSlowDown /\ SlowedDown(q)
        /\ q.response.interval = grants[q.device_code].interval + 5
        /\ q.device_code \in DOMAIN store
        /\ store[q.device_code].interval = grants[q.device_code].interval

\* C24 (concurrent success): every poll that upstream answered with success
\* and during which no call raised an exception has performed its delete and
\* returned 200 with a token, whether or not another poll had already deleted
\* the key; no session is left for a code whose token was returned.
C24_ConcurrentSuccess ==
    /\ \A q \in Polls :
         q.answer = "success" /\ q.thrown = "" =>
            /\ q.response.status = 200
            /\ q.response.access_token # NoToken
            /\ q.response.error = ""
            /\ q.deletes = <<q.device_code>>
    /\ \A d \in Resolved : d \notin DOMAIN store /\ deleted[d] >= 1

\* Two polls on d have both found the session, both performed the delete and
\* both returned.
C24_Witness ==
    \E d \in Codes :
        /\ deleted[d] = 2 /\ d \notin DOMAIN store /\ d \notin expired
        /\ \A r \in Requests : reqs[r].kind = "idle"
        /\ \E q \in Polls : ReturnedToken(q) /\ q.device_code = d /\ ~q.late

InFlight(r) == reqs[r].kind # "idle"

\* C30 (termination): every start and every poll in flight is eventually
\* answered, and the step that answers it adds its one Response to the
\* answered requests, from which nothing is ever taken back.
C30_EveryRequestAnswered ==
    /\ \A r \in Requests : InFlight(r) ~> ~InFlight(r)
    /\ [][ /\ finished \subseteq finished'
           /\ \A r \in Requests :
                InFlight(r) /\ ~InFlight(r)' =>
                   \E q \in finished' :
                      /\ q.kind = reqs[r].kind
                      /\ q.device_code = reqs[r].device_code
                      /\ q.pc = "done" /\ q.response.status # 0 ]_vars

\* Every request of the run is answered: a start after its put, a poll after
\* its delete.
C30_Witness ==
    /\ nextReq = MaxReq /\ \A r \in Requests : ~InFlight(r)
    /\ \A q \in finished : q.pc = "done" /\ q.response.status # 0
    /\ \E q \in Starts : q.response.status = 200 /\ Len(q.puts) = 1
    /\ \E q \in Polls : q.response.status = 200 /\ Len(q.deletes) = 1

\* C22 (no token storage): no value in DEVICE_CODES or in AUTH_STATES contains
\* an access token.
C22_NoTokenStored ==
    /\ \A d \in DOMAIN store : "access_token" \notin DOMAIN store[d]
    /\ \A state \in DOMAIN authStates :
         authStates[state].access_token = NoToken

\* The broker has answered a POST /token that carried a Bearer token.
BearerTokenCall ==
    /\ call.pc = "done"
    /\ call.method = "POST" /\ call.path = "/token"
    /\ StartsWithBearer(call.authorization)

\* C25 (token scope): a POST /token authenticated by a Bearer token returns an
\* installation token only for the installation of the repository whose
\* access the broker verified for the caller.
C25_TokenForVerifiedRepository ==
    BearerTokenCall /\ call.response.token # NoInstallation =>
        /\ call.verified \in Repos
        /\ call.response.token = InstallationOf(call.verified)

\* The broker has answered a POST.
Posted == call.pc = "done" /\ call.method = "POST"

\* The POST carries a Bearer token upstream accepts.
AcceptedBearer == call.authorization = GoodBearer

\* The POST carries the HMAC of its method, path and body under the secret
\* the broker is configured with.
ValidSignature ==
    /\ brokerEnv.BROKER_CLIENT_SECRET # NoSecret
    /\ call.clientAuth =
           Hmac(brokerEnv.BROKER_CLIENT_SECRET,
                call.method \o call.path \o call.rawBody)

Unauthenticated == ~AcceptedBearer /\ ~ValidSignature

MeetsEveryPermission ==
    \A resource \in DOMAIN github.appPermissions :
        PermissionLevel(call.permissions)
            >= PermissionLevel(github.appPermissions[resource])

\* C27 (permission validation): a Bearer caller that names a repository gets
\* a token only if its permission level on the repository meets or exceeds
\* the level of every permission of the app's installation; otherwise the
\* permission check answers 403.
C27_PermissionsSuffice ==
    BearerTokenCall /\ call.body.installation_id = NoInstallation =>
        /\ call.response.token # NoInstallation => MeetsEveryPermission
        /\ call.appPermissions # NoPermissions /\ ~MeetsEveryPermission =>
               call.response.status = 403

\* C28 (rate limiting): a POST from an IP that has made RateLimit requests in
\* the current hour is answered 429 and no token is minted for it.
C28_RateLimited ==
    Posted /\ rateLimit >= RateLimit =>
        call.response.status = 429 /\ call.response.token = NoInstallation

TokenResponses(d) == deleted[d]

\* C31 as written: for every device code, over any interleaving of polls,
\* at most one poll response carries an access token.
C31_Original ==
    \A d \in Codes : TokenResponses(d) <= 1

\* C31 (amended): a poll returns a token only when it was received before
\* any token was returned for its code, its own get found the session and
\* upstream answered its own exchange request with success; so the token
\* responses for a code are at most the successes upstream answers for it.
C31_TokenPerUpstreamSuccess ==
    /\ \A q \in Polls :
         ReturnedToken(q) =>
            /\ ~q.late
            /\ q.gets = 1 /\ q.seen = "found" /\ q.data # NoData
            /\ q.answer = "success"
            /\ q.response.access_token # NoToken
    /\ \A q \in Polls :
         q.response.access_token # NoToken => ReturnedToken(q)
    /\ \A d \in Codes : TokenResponses(d) > 0 <=> d \in Resolved

\* Two polls on d, both received before either had returned, have each
\* returned the token.
C31_Witness ==
    \E d \in Codes :
        /\ TokenResponses(d) = 2
        /\ \E q \in Polls :
             /\ ReturnedToken(q) /\ q.device_code = d
             /\ ~q.late /\ q.seen = "found" /\ q.answer = "success"

\* C32 (session visible after start): with a configured store, a start that
\* answers 200 has put the session before answering, so the lookup of a
\* poll on a code a start returned finds the session unless the TTL has
\* removed it or a poll has resolved it by then; a poll whose lookup found
\* the session is never answered with the absent-session 400 expired_token
\* (a 400 expired_token it returns is upstream's own answer, passed through).
C32_PollAfterStartFindsSession ==
    /\ \A s \in Starts :
         s.response.status = 200 /\ env.DEVICE_CODES =>
            s.puts = <<<<s.response.device_code, s.data.expires_in>>>>
    /\ \A q \in PollsSoFar :
         q.device_code \in Codes /\ q.seen # "none" =>
            /\ q.device_code \in Created
            /\ q.seen \in {"found", "expired", "resolved"}
            /\ q.seen = "found" =>
                 /\ q.data # NoData
                 /\ q.response # ExpiredResponse
                 /\ q.response.error_description # "Device code has expired"
                 /\ q.response.error = "expired_token" =>
                        q.answer = "expired_token"

\* A poll on d, received after the start for d had answered 200 and while d
\* was neither expired nor resolved, has found the session and is answered
\* 202 with the session's interval.
C32_Witness ==
    \E q \in Polls :
        /\ q.device_code \in Created /\ ~q.late /\ ~q.afterExpired
        /\ q.seen = "found" /\ q.response.status = 202
        /\ q.response.interval = grants[q.device_code].interval

\* C33 (order of the checks): a poll without device_code is answered 400
\* whether or not a store is configured; without a store every poll with a
\* non-empty device_code is answered 503; and a 202, 429 or 200 is only
\* returned by a poll whose own lookup found the session of its code.
C33_CheckOrder ==
    /\ \A q \in Polls : q.device_code = NoCode => q.response.status = 400
    /\ ~env.DEVICE_CODES =>
         \A q \in Polls : q.device_code # NoCode => Is503(q.response)
    /\ \A q \in Polls :
         q.response.status \in {202, 429, 200} =>
            /\ q.gets = 1 /\ q.seen = "found" /\ q.data # NoData
            /\ q.device_code \in Created

\* The poll in slot r is inside exchangeForInstallationToken.
InExchange(r) == reqs[r].pc \in {"installations", "access_tokens"}

\* C34 (the exchange never fails a poll): no step of
\* exchangeForInstallationToken answers the poll; a step that ends the
\* exchange without an installation token (lookup not ok, app not
\* installed, credentials missing, token creation not ok, an exception)
\* hands the upstream OAuth token to the poll, which goes on to its delete;
\* every poll that came out of the exchange and whose delete returned has
\* deleted its session and answered 200 with the token the exchange handed
\* over, app_attribution being true exactly when that token is not the
\* upstream OAuth token.
C34_ExchangeNeverFailsPoll ==
    [][/\ \A r \in Requests :
            InExchange(r) /\ Moved(r) =>
               /\ finished' = finished
               /\ reqs'[r].oauth = reqs[r].oauth
               /\ \/ /\ reqs[r].pc = "installations"
                     /\ reqs'[r].pc = "access_tokens"
                     /\ env.APP_CREDENTIALS
                  \/ /\ reqs'[r].pc = "poll_delete"
                     /\ reqs'[r].finalToken = reqs[r].oauth
                  \/ /\ reqs[r].pc = "access_tokens"
                     /\ reqs'[r].pc = "poll_delete"
                     /\ reqs'[r].finalToken =
                            InstallationToken(reqs[r].device_code)
        /\ \A q \in Polls' :
            q.oauth # NoToken /\ q.thrown = "" =>
               /\ q.response.status = 200
               /\ q.deletes = <<q.device_code>>
               /\ q.response.access_token = q.finalToken
               /\ q.response.error = ""
               /\ q.finalToken = q.oauth =>
                    /\ q.response.access_token = OAuthToken(q.device_code)
                    /\ ~q.response.app_attribution
               /\ q.response.app_attribution <=>
                    q.response.access_token # q.oauth]_vars

\* A poll went through the installations lookup and the token creation, the
\* token creation failed, and the poll deleted its session and answered 200
\* with the upstream OAuth token, unattributed.
C34_Witness ==
    \E q \in Polls :
        /\ q.upstreamCalls = 3 /\ q.finalToken = q.oauth
        /\ q.response.status = 200 /\ q.deletes = <<q.device_code>>
        /\ q.response.access_token = OAuthToken(q.device_code)
        /\ ~q.response.app_attribution
        /\ q.device_code \notin DOMAIN store

\* The answered web-flow requests, by handler.
WebStarts == {q \in webFinished : q.kind = "start"}
WebCallbacks == {q \in webFinished : q.kind = "callback"}
WebPolls == {q \in webFinished : q.kind = "poll"}

\* /auth/start created state: it put the pending value and answered 200.
StartCreated(state) ==
    \E s \in WebStarts :
        /\ s.state = state
        /\ s.puts = <<<<state, PendingState>>>>
        /\ s.response = AuthStarted(state)

\* /auth/callback completed state with tokenData, which upstream granted.
CallbackCompleted(state, c) ==
    /\ c.state = state
    /\ c.stateData # NoStateData
    /\ c.upstreamCalls = 1
    /\ c.tokenData.error = "" /\ c.tokenData.access_token # NoToken
    /\ c.puts = <<<<state, CompletedState(c.tokenData)>>>>
    /\ c.response = AuthorizationSuccessful

\* C35 (web flow, token only after start and callback): a poll answers with
\* an access token only for a state that /auth/start created and that a
\* callback completed after upstream granted its code, and the token is the
\* one that callback stored; a poll whose lookup finds the state pending
\* answers 202 authorization_pending and writes nothing to the store.
C35_TokenOnlyAfterCallback ==
    /\ \A q \in WebPolls :
         q.response.access_token # NoToken =>
            /\ q.response.status = 200
            /\ q.state \in 1..webIssued
            /\ StartCreated(q.state)
            /\ \E c \in WebCallbacks :
                 /\ CallbackCompleted(q.state, c)
                 /\ q.response.access_token = c.tokenData.access_token
    /\ \A q \in WebPolls :
         q.stateData.status = "pending" =>
            /\ q.response = AuthorizationPending
            /\ q.response.access_token = NoToken
            /\ q.puts = <<>> /\ q.deletes = <<>>
    /\ \A r \in WebRequests :
         webReqs[r].kind = "poll" =>
            webReqs[r].puts = <<>> /\ webReqs[r].deletes = <<>>

\* A poll found its state pending and answered 202, the state still stored
\* as pending; a later poll delivered the token a callback stored for it.
C35_Witness ==
    \E p, q \in WebPolls :
        /\ p.state = q.state
        /\ p.stateData.status = "pending" /\ p.response = AuthorizationPending
        /\ q.response.status = 200
        /\ q.response.access_token = UserToken(GoodCode)
        /\ StartCreated(q.state)

\* C36 (web flow, single delivery): every poll that returns the token of a
\* state has deleted the state, no poll returns the token of a state whose
\* token a poll has already returned, and every poll received after the
\* token of its state was returned is answered 400 expired_token.
C36_SingleDelivery ==
    /\ \A q \in WebPolls :
         q.response.status = 200 =>
            /\ q.deletes = <<q.state>>
            /\ ~q.repeat
    /\ \A q \in WebPolls :
         q.late /\ q.thrown = "" =>
            /\ q.response = StateExpired
            /\ q.response.access_token = NoToken

\* The state a callback names was issued by /auth/start and was found by the
\* callback's lookup still pending: not expired, not yet completed.
FoundPending(c) ==
    /\ c.state \in 1..webIssued
    /\ c.gets = 1 /\ c.stateData.status = "pending"

\* C37 (web flow, state verification): a callback asks upstream to exchange
\* its code only for a state that /auth/start issued and that its lookup
\* found pending; for any other state it answers 400, asks upstream nothing
\* and writes nothing to the store.
C37_StateVerified ==
    \A c \in WebCallbacks :
        c.thrown = "" /\ ~FoundPending(c) =>
            /\ c.response.status = 400
            /\ c.upstreamCalls = 0
            /\ c.puts = <<>>

====
